---------------------------- MODULE Spec2Model ----------------------------
(***************************************************************************)
(* Frequency-coverage statistics of the HSK vocabulary tracker             *)
(* (app/lib/stats.ts): computeFrequencyStats and computeCoverageCurve.     *)
(*                                                                         *)
(* Numbers.  Counts and ranks are integers.  The real-valued quantities    *)
(* of the coverage curve (1/rank, running sums) are held as weights: a     *)
(* weight is an integer number of units of 1/FScale with a bounded number  *)
(* of significant bits, every division 1/k rounds to the nearest weight,   *)
(* and every addition of the running sums and of h16 + h79 rounds its      *)
(* result to the nearest weight, ties to even, as a double addition does.  *)
(* A percentage (x / H_R) * 100 is held as the integer x * 100 over the    *)
(* fixed denominator H_R: the division and the product are not rounded.    *)
(***************************************************************************)
EXTENDS Integers, Sequences, FiniteSets, TLC

\* ----- program constants (stats.ts) -----
BUCKET_SIZE == 500
NUM_BUCKETS == 20
R == 10000
TOP_N == 5000

\* JavaScript null (HskWord.hskLevel, HskWord.frequency) and an omitted
\* `level` argument, encoded as integers outside every domain used below.
NULL == -1000000
UNDEFINED == -2000000

\* ----- bounds of the model -----
MaxWords == 2        \* longest word list drawn from the full word domain
MaxDup == 11         \* longest list of words that all share one rank
FScale == 10000      \* fixed-point units per 1.0

\* ----- arithmetic helpers -----
Min(a, b) == IF a <= b THEN a ELSE b

\* Math.floor(a / b) for b > 0
FloorDiv(a, b) == a \div b

\* Math.round(a / b) for a >= 0, b > 0 (round half up)
RoundDiv(a, b) == (2 * a + b) \div (2 * b)

\* JavaScript ToNumber on a number-or-null operand: null coerces to 0
ToNumber(x) == IF x = NULL THEN 0 ELSE x

\* trackedSet.has(id)
Has(set, id) == id \in set

\* ----- computeFrequencyStats -----

\* variant: the level-7 scope narrowed to the words of tier 7
Filtered_Tier7Only(ws, lvl) ==
  IF lvl = 7
    THEN SelectSeq(ws, LAMBDA w : w.frequency # NULL /\ w.hskLevel = 7)
    ELSE SelectSeq(ws, LAMBDA w : w.hskLevel # NULL /\ w.hskLevel <= 6)

\* variant: a level in 1..6 narrows the scope to the words of that tier
Filtered_ExactLevel(ws, lvl) ==
  IF lvl = 7
    THEN SelectSeq(ws, LAMBDA w : w.frequency # NULL)
    ELSE IF lvl = UNDEFINED
      THEN SelectSeq(ws, LAMBDA w : w.hskLevel # NULL /\ w.hskLevel <= 6)
      ELSE SelectSeq(ws, LAMBDA w : w.hskLevel # NULL /\ w.hskLevel = lvl)

\* variant: no scope filter, every word of the list is walked
Filtered_NoScope(ws, lvl) == ws

\* lines 22-23
Filtered(ws, lvl) ==
  IF lvl = 7
    THEN SelectSeq(ws, LAMBDA w : w.frequency # NULL)
    ELSE SelectSeq(ws, LAMBDA w : w.hskLevel # NULL /\ w.hskLevel <= 6)

\* lines 25-31 (rangeLabel is the pair min-max rendered as text)
InitBuckets ==
  [b \in 0..(NUM_BUCKETS - 1) |->
     [min |-> b * BUCKET_SIZE + 1,
      max |-> (b + 1) * BUCKET_SIZE,
      hskCount |-> 0,
      trackedCount |-> 0]]

\* lines 25-38: the locals before the loop
InitAcc ==
  [buckets |-> InitBuckets,
   totalTracked |-> 0,
   topNTotal |-> 0,
   topNTracked |-> 0,
   levelWords |-> 0,
   levelTracked |-> 0]

\* variant: the rank is not shifted to 0-based before the division
BucketIndex_NoShift(freq) ==
  Min(FloorDiv(ToNumber(freq), BUCKET_SIZE), NUM_BUCKETS - 1)

\* variant: the index is not clamped to the last bucket
BucketIndex_NoClamp(freq) == FloorDiv(ToNumber(freq) - 1, BUCKET_SIZE)

\* variant: the index is clamped one bucket short of the last
BucketIndex_ClampShort(freq) ==
  Min(FloorDiv(ToNumber(freq) - 1, BUCKET_SIZE), NUM_BUCKETS - 2)

\* lines 46-50
BucketIndex(freq) ==
  Min(FloorDiv(ToNumber(freq) - 1, BUCKET_SIZE), NUM_BUCKETS - 1)

\* line 55: freq <= TOP_N (null compares as 0)
InTopN(freq) == ToNumber(freq) <= TOP_N

\* variant: a tracked word adds to trackedCount instead of hskCount
LoopBody_TrackedInsteadOfHsk(a, word, tracked, lvl) ==
  LET t == Has(tracked, word.id)
      a1 == IF t THEN [a EXCEPT !.totalTracked = @ + 1] ELSE a
      a2 == IF lvl = 7 /\ word.hskLevel = 7
              THEN [a1 EXCEPT !.levelWords = @ + 1,
                              !.levelTracked = IF t THEN @ + 1 ELSE @]
              ELSE a1
      freq == word.frequency
      bucketIndex == BucketIndex(freq)
      a3 == IF bucketIndex >= 0 /\ bucketIndex < NUM_BUCKETS
              THEN IF t
                     THEN [a2 EXCEPT !.buckets[bucketIndex].trackedCount = @ + 1]
                     ELSE [a2 EXCEPT !.buckets[bucketIndex].hskCount = @ + 1]
              ELSE a2
      a4 == IF InTopN(freq)
              THEN [a3 EXCEPT !.topNTotal = @ + 1,
                              !.topNTracked = IF t THEN @ + 1 ELSE @]
              ELSE a3
  IN a4

\* variant: with level 7 every in-scope word counts as a level word
LoopBody_LevelAnyTier(a, word, tracked, lvl) ==
  LET t == Has(tracked, word.id)
      a1 == IF t THEN [a EXCEPT !.totalTracked = @ + 1] ELSE a
      a2 == IF lvl = 7
              THEN [a1 EXCEPT !.levelWords = @ + 1,
                              !.levelTracked = IF t THEN @ + 1 ELSE @]
              ELSE a1
      freq == word.frequency
      bucketIndex == BucketIndex(freq)
      a3 == IF bucketIndex >= 0 /\ bucketIndex < NUM_BUCKETS
              THEN [a2 EXCEPT
                      !.buckets[bucketIndex].hskCount = @ + 1,
                      !.buckets[bucketIndex].trackedCount =
                          IF t THEN @ + 1 ELSE @]
              ELSE a2
      a4 == IF InTopN(freq)
              THEN [a3 EXCEPT !.topNTotal = @ + 1,
                              !.topNTracked = IF t THEN @ + 1 ELSE @]
              ELSE a3
  IN a4

\* variant: the top-N tracked counter ignores whether the word is tracked
LoopBody_TopNCountsAll(a, word, tracked, lvl) ==
  LET t == Has(tracked, word.id)
      a1 == IF t THEN [a EXCEPT !.totalTracked = @ + 1] ELSE a
      a2 == IF lvl = 7 /\ word.hskLevel = 7
              THEN [a1 EXCEPT !.levelWords = @ + 1,
                              !.levelTracked = IF t THEN @ + 1 ELSE @]
              ELSE a1
      freq == word.frequency
      bucketIndex == BucketIndex(freq)
      a3 == IF bucketIndex >= 0 /\ bucketIndex < NUM_BUCKETS
              THEN [a2 EXCEPT
                      !.buckets[bucketIndex].hskCount = @ + 1,
                      !.buckets[bucketIndex].trackedCount =
                          IF t THEN @ + 1 ELSE @]
              ELSE a2
      a4 == IF InTopN(freq)
              THEN [a3 EXCEPT !.topNTotal = @ + 1,
                              !.topNTracked = @ + 1]
              ELSE a3
  IN a4

\* lines 40-59: one iteration of the loop over `filtered`
LoopBody(a, word, tracked, lvl) ==
  LET t == Has(tracked, word.id)
      a1 == IF t THEN [a EXCEPT !.totalTracked = @ + 1] ELSE a
      a2 == IF lvl = 7 /\ word.hskLevel = 7
              THEN [a1 EXCEPT !.levelWords = @ + 1,
                              !.levelTracked = IF t THEN @ + 1 ELSE @]
              ELSE a1
      freq == word.frequency
      bucketIndex == BucketIndex(freq)
      a3 == IF bucketIndex >= 0 /\ bucketIndex < NUM_BUCKETS
              THEN [a2 EXCEPT
                      !.buckets[bucketIndex].hskCount = @ + 1,
                      !.buckets[bucketIndex].trackedCount =
                          IF t THEN @ + 1 ELSE @]
              ELSE a2
      a4 == IF InTopN(freq)
              THEN [a3 EXCEPT !.topNTotal = @ + 1,
                              !.topNTracked = IF t THEN @ + 1 ELSE @]
              ELSE a3
  IN a4

\* variant: the ratio is rounded without scaling to percent
CoveragePercent_NoScale(topNTracked, topNTotal) ==
  IF topNTotal > 0 THEN RoundDiv(topNTracked, topNTotal) ELSE 0

\* variant: an empty top-N population reads as fully covered
CoveragePercent_EmptyIsFull(topNTracked, topNTotal) ==
  IF topNTotal > 0 THEN RoundDiv(topNTracked * 100, topNTotal) ELSE 100

\* variant: the percentage is truncated instead of rounded
CoveragePercent_Floor(topNTracked, topNTotal) ==
  IF topNTotal > 0 THEN FloorDiv(topNTracked * 100, topNTotal) ELSE 0

\* lines 61-62
CoveragePercent(topNTracked, topNTotal) ==
  IF topNTotal > 0 THEN RoundDiv(topNTracked * 100, topNTotal) ELSE 0

\* variant: totalWords reports the top-N count instead of filtered.length
StatsResult_TotalFromTopN(a, flt, lvl) ==
  IF lvl = 7
    THEN [buckets |-> a.buckets,
          totalWords |-> a.topNTotal,
          totalTracked |-> a.totalTracked,
          topNTotal |-> a.topNTotal,
          topNTracked |-> a.topNTracked,
          coveragePercent |-> CoveragePercent(a.topNTracked, a.topNTotal),
          levelWords |-> a.levelWords,
          levelTracked |-> a.levelTracked]
    ELSE [buckets |-> a.buckets,
          totalWords |-> a.topNTotal,
          totalTracked |-> a.totalTracked,
          topNTotal |-> a.topNTotal,
          topNTracked |-> a.topNTracked,
          coveragePercent |-> CoveragePercent(a.topNTracked, a.topNTotal)]

\* lines 61-72
StatsResult(a, flt, lvl) ==
  LET base == [buckets |-> a.buckets,
               totalWords |-> Len(flt),
               totalTracked |-> a.totalTracked,
               topNTotal |-> a.topNTotal,
               topNTracked |-> a.topNTracked,
               coveragePercent |->
                   CoveragePercent(a.topNTracked, a.topNTotal)]
  IN IF lvl = 7
       THEN [buckets |-> base.buckets,
             totalWords |-> base.totalWords,
             totalTracked |-> base.totalTracked,
             topNTotal |-> base.topNTotal,
             topNTracked |-> base.topNTracked,
             coveragePercent |-> base.coveragePercent,
             levelWords |-> a.levelWords,
             levelTracked |-> a.levelTracked]
       ELSE base

RECURSIVE LoopFrom(_, _, _, _, _)
\* lines 40-59: the loop from position k (1-based) to the end of `flt`
LoopFrom(a, flt, k, tracked, lvl) ==
  IF k > Len(flt) THEN a
  ELSE LoopFrom(LoopBody(a, flt[k], tracked, lvl), flt, k + 1, tracked, lvl)

\* lines 17-73: the whole function
computeFrequencyStats(ws, tracked, lvl) ==
  LET flt == Filtered(ws, lvl)
  IN StatsResult(LoopFrom(InitAcc, flt, 1, tracked, lvl), flt, lvl)

\* ----- computeCoverageCurve -----

\* The sums of the curve are IEEE doubles: every addition rounds its result
\* to the nearest value with a 53-bit significand, ties to even.  The model
\* keeps the same arithmetic at a narrower significand, so that the rounding
\* shows on short lists: a weight is an integer count of 1/FScale units with
\* at most MantissaBits significant bits.
MantissaBits == 12

RECURSIVE BitLen(_)
\* the number of binary digits of x >= 0
BitLen(x) == IF x = 0 THEN 0 ELSE 1 + BitLen(x \div 2)

\* the spacing of the representable weights around x
Quantum(x) ==
  IF BitLen(x) <= MantissaBits THEN 1 ELSE 2 ^ (BitLen(x) - MantissaBits)

\* x rounded to the nearest representable weight, ties to even
RoundSig(x) ==
  LET q == Quantum(x)
      d == x \div q
      r == x % q
  IN IF 2 * r > q \/ (2 * r = q /\ d % 2 = 1) THEN (d + 1) * q ELSE d * q

\* a + b on two weights (the `+` and `+=` of lines 84, 149, 161)
FAdd(a, b) == RoundSig(a + b)

\* 1 / k as a weight, k >= 1 (line 84)
Recip(k) == RoundSig(RoundDiv(FScale, k))

RECURSIVE HarmonicRange(_, _)
\* lines 9-11: the terms 1/k for k = lo..hi, added up.  The sum is split in
\* halves to bound the recursion depth and is added without rounding: a
\* harmonic number is only ever compared with harmonic numbers computed by
\* this same expression and serves as the common denominator H_R.
HarmonicRange(lo, hi) ==
  IF lo > hi THEN 0
  ELSE IF lo = hi THEN Recip(lo)
  ELSE LET mid == (lo + hi) \div 2
       IN HarmonicRange(lo, mid) + HarmonicRange(mid + 1, hi)

\* lines 7-13
harmonicNumber(n) == HarmonicRange(1, n)

\* line 15
H_R == harmonicNumber(R)

RECURSIVE InsertSorted(_, _)
InsertSorted(s, x) ==
  IF s = <<>> THEN <<x>>
  ELSE IF x < Head(s) THEN <<x>> \o s
  ELSE <<Head(s)>> \o InsertSorted(Tail(s), x)

RECURSIVE SortAsc(_)
\* line 79: ranks.slice().sort((a, b) => a - b)
SortAsc(s) ==
  IF s = <<>> THEN <<>>
  ELSE InsertSorted(SortAsc(SubSeq(s, 1, Len(s) - 1)), s[Len(s)])

RECURSIVE PrefixLoop_NoSum(_, _, _, _)
\* variant: each entry holds its own weight instead of the running sum
PrefixLoop_NoSum(sorted, i, sum, prefix) ==
  IF i >= Len(sorted) THEN prefix
  ELSE PrefixLoop_NoSum(sorted, i + 1, sum,
                        Append(prefix, Recip(sorted[i + 1])))

RECURSIVE PrefixLoop(_, _, _, _)
\* lines 81-85: i is the 0-based loop index
PrefixLoop(sorted, i, sum, prefix) ==
  IF i >= Len(sorted) THEN prefix
  ELSE LET sum2 == FAdd(sum, Recip(sorted[i + 1]))
       IN PrefixLoop(sorted, i + 1, sum2, Append(prefix, sum2))

\* variant: the ranks are accumulated in the order given, without sorting
buildPrefixSums_Unsorted(ranks) ==
  [sorted |-> ranks, prefix |-> PrefixLoop(ranks, 0, 0, <<>>)]

\* lines 75-87
buildPrefixSums(ranks) ==
  LET sorted == SortAsc(ranks)
  IN [sorted |-> sorted, prefix |-> PrefixLoop(sorted, 0, 0, <<>>)]

RECURSIVE SearchLoop(_, _, _, _, _)
\* lines 98-106: lo, hi, result are the 0-based indices of the code
SearchLoop(sorted, n, lo, hi, result) ==
  IF lo <= hi
    THEN LET mid == (lo + hi) \div 2
         IN IF sorted[mid + 1] <= n
              THEN SearchLoop(sorted, n, mid + 1, hi, mid)
              ELSE SearchLoop(sorted, n, lo, mid - 1, result)
    ELSE result

\* lines 89-108
cumulativeAt(sorted, prefix, n) ==
  IF n <= 0 \/ Len(sorted) = 0 THEN 0
  ELSE LET result == SearchLoop(sorted, n, 0, Len(sorted) - 1, -1)
       IN IF result >= 0 THEN prefix[result + 1] ELSE 0

\* variant: no upper bound on the rank
UsableFrequency_NoUpper(word) ==
  /\ word.frequency # NULL
  /\ word.frequency >= 1

\* line 119
UsableFrequency(word) ==
  /\ word.frequency # NULL
  /\ word.frequency >= 1
  /\ word.frequency <= R

\* line 120
IsCoreTier(word) == word.hskLevel # NULL /\ word.hskLevel <= 6

\* lines 114-116
InitRanks == [hsk16Ranks |-> <<>>, hsk79Ranks |-> <<>>, trackedRanks |-> <<>>]

\* variant: a tracked rank is recorded for core-tier words only
PartitionBody_TrackedCoreOnly(rk, word, tracked) ==
  IF UsableFrequency(word)
    THEN IF IsCoreTier(word)
           THEN LET r1 == [rk EXCEPT !.hsk16Ranks = Append(@, word.frequency)]
                IN IF Has(tracked, word.id)
                     THEN [r1 EXCEPT !.trackedRanks = Append(@, word.frequency)]
                     ELSE r1
           ELSE [rk EXCEPT !.hsk79Ranks = Append(@, word.frequency)]
    ELSE rk

\* variant: a tracked word is recorded in `trackedRanks` only, not in the
\* list of its tier
PartitionBody_TrackedLeavesTier(rk, word, tracked) ==
  IF UsableFrequency(word)
    THEN IF Has(tracked, word.id)
           THEN [rk EXCEPT !.trackedRanks = Append(@, word.frequency)]
           ELSE IF IsCoreTier(word)
                  THEN [rk EXCEPT !.hsk16Ranks = Append(@, word.frequency)]
                  ELSE [rk EXCEPT !.hsk79Ranks = Append(@, word.frequency)]
    ELSE rk

\* lines 118-129: one iteration of the loop over `words`
PartitionBody(rk, word, tracked) ==
  IF UsableFrequency(word)
    THEN LET r1 == IF IsCoreTier(word)
                     THEN [rk EXCEPT !.hsk16Ranks = Append(@, word.frequency)]
                     ELSE [rk EXCEPT !.hsk79Ranks = Append(@, word.frequency)]
         IN IF Has(tracked, word.id)
              THEN [r1 EXCEPT !.trackedRanks = Append(@, word.frequency)]
              ELSE r1
    ELSE rk

\* r = from, from + step, ... while r <= to
RangeSeq(from, to, step) ==
  [j \in 1..((to - from) \div step + 1) |-> from + (j - 1) * step]

\* variant: one uniform step of 500 over the whole range
sampleRanks_UniformStep == RangeSeq(0, R, 500)

\* lines 135-139
sampleRanks ==
  RangeSeq(0, 1000, 50) \o RangeSeq(1100, 3000, 100)
    \o RangeSeq(3250, 5000, 250) \o RangeSeq(5500, R, 500)

\* harmonicNumber at the sampled ranks (line 142)
HarmonicAtSample == [j \in DOMAIN sampleRanks |-> harmonicNumber(sampleRanks[j])]

\* (x / H_R) * 100 as a numerator over the denominator H_R
Percent(x) == x * 100

\* Math.round((x / H_R) * 1000) / 10, in tenths of a percent
SummaryPercent(x) == RoundDiv(x * 1000, H_R)

\* variant: hskAllPercent holds the extended-tier sum alone
Point_AllIsExtended(j, hsk16, hsk79, tracked) ==
  LET n == sampleRanks[j]
      h16 == cumulativeAt(hsk16.sorted, hsk16.prefix, n)
      h79 == cumulativeAt(hsk79.sorted, hsk79.prefix, n)
      ht == cumulativeAt(tracked.sorted, tracked.prefix, n)
  IN [rank |-> n,
      zipfPercent |-> IF n = 0 THEN 0 ELSE Percent(HarmonicAtSample[j]),
      hsk16Percent |-> Percent(h16),
      hskAllPercent |-> Percent(h79),
      trackedPercent |-> Percent(ht)]

\* lines 141-153: the point of sample j
Point(j, hsk16, hsk79, tracked) ==
  LET n == sampleRanks[j]
      h16 == cumulativeAt(hsk16.sorted, hsk16.prefix, n)
      h79 == cumulativeAt(hsk79.sorted, hsk79.prefix, n)
      ht == cumulativeAt(tracked.sorted, tracked.prefix, n)
  IN [rank |-> n,
      zipfPercent |-> IF n = 0 THEN 0 ELSE Percent(HarmonicAtSample[j]),
      hsk16Percent |-> Percent(h16),
      hskAllPercent |-> Percent(FAdd(h16, h79)),
      trackedPercent |-> Percent(ht)]

\* variant: the first prefix-sum entry instead of the last
LastOrZero_First(prefix) == IF Len(prefix) > 0 THEN prefix[1] ELSE 0

\* lines 155-162
LastOrZero(prefix) == IF Len(prefix) > 0 THEN prefix[Len(prefix)] ELSE 0

\* lines 131-170: everything after the partition loop
CurveResult(rk) ==
  LET hsk16 == buildPrefixSums(rk.hsk16Ranks)
      hsk79 == buildPrefixSums(rk.hsk79Ranks)
      tracked == buildPrefixSums(rk.trackedRanks)
      totalHsk16 == LastOrZero(hsk16.prefix)
      totalHsk79 == LastOrZero(hsk79.prefix)
      totalTracked == LastOrZero(tracked.prefix)
  IN [points |-> [j \in DOMAIN sampleRanks |-> Point(j, hsk16, hsk79, tracked)],
      totalHsk16Percent |-> SummaryPercent(totalHsk16),
      totalHskAllPercent |-> SummaryPercent(FAdd(totalHsk16, totalHsk79)),
      totalTrackedPercent |-> SummaryPercent(totalTracked)]

RECURSIVE PartitionFrom(_, _, _, _)
\* lines 118-129: the loop from position k (1-based) to the end of `ws`
PartitionFrom(rk, ws, k, tracked) ==
  IF k > Len(ws) THEN rk
  ELSE PartitionFrom(PartitionBody(rk, ws[k], tracked), ws, k + 1, tracked)

\* lines 110-171: the whole function
computeCoverageCurve(ws, tracked) ==
  CurveResult(PartitionFrom(InitRanks, ws, 1, tracked))

\* ----- state -----
VARIABLES
  words,        \* argument `words`: sequence of [id, hskLevel, frequency]
  trackedSet,   \* argument `trackedSet`: set of ids
  level,        \* argument `level` (UNDEFINED when omitted)
  pc,           \* position of the call in progress
  filtered,     \* computeFrequencyStats: local `filtered`
  idx,          \* computeFrequencyStats: words of `filtered` consumed so far
  acc,          \* computeFrequencyStats: buckets and counters
  stats,        \* value returned by computeFrequencyStats
  ranks,        \* computeCoverageCurve: hsk16Ranks, hsk79Ranks, trackedRanks
  curve,        \* value returned by computeCoverageCurve
  search,       \* a lookup buildPrefixSums + cumulativeAt: arguments and locals
  prev,         \* values returned by the calls made before the current one
  storage,      \* localStorage entry "tracked-words", shared by the tabs
  heap,         \* the Set objects created so far, by reference
  tabs,         \* per tab: cachedSet, listeners, pending events, the page
  lastOp        \* the last store operation run, and how many were run

vars ==
  <<words, trackedSet, level, pc, filtered, idx, acc, stats, ranks, curve,
    search, prev, storage, heap, tabs, lastOp>>

NoResult == [none |-> TRUE]

\* no lookup in progress
NoSearch == [none |-> TRUE]

\* no call returned yet
NoPrev == [stats |-> NoResult, curve |-> NoResult, calls |-> 0]

\* the tracked-word store is not in use
NoStorage == [kind |-> "absent", arr |-> <<>>]
NoTabs == <<>>
NoOp == [tab |-> 0, name |-> "none", ids |-> <<>>, count |-> 0]

\* ----- inputs -----
Levels == {NULL, 6, 7}
StatsFrequencies == {NULL, 0, 1, 501, 5000, 5001, 10000, 10001, 1000000}
LevelArgs == {UNDEFINED, 1, 6, 7}

MkWords(kinds) ==
  [j \in DOMAIN kinds |->
     [id |-> j, hskLevel |-> kinds[j][1], frequency |-> kinds[j][2]]]

WordLists(levels, freqs, n) ==
  { MkWords(k) : k \in UNION { [1..m -> levels \X freqs] : m \in 0..n } }

TrackedSets == SUBSET (1..MaxWords)

\* lists of up to MaxDup words that all share rank 1 and one tier
DupLists ==
  { MkWords([j \in 1..m |-> <<lv, 1>>]) : m \in 0..MaxDup, lv \in {6, 7} }

\* the three words a, b, c of the documented scenario (ids 1, 2, 3)
ScenarioWords ==
  << [id |-> 1, hskLevel |-> 1, frequency |-> 1],
     [id |-> 2, hskLevel |-> 1, frequency |-> 501],
     [id |-> 3, hskLevel |-> 1, frequency |-> 1000000] >>

InitStats ==
  /\ words \in WordLists(Levels, StatsFrequencies, MaxWords)
                \cup DupLists \cup {ScenarioWords}
  /\ trackedSet \in TrackedSets
  /\ level \in LevelArgs
  /\ pc = "idle"
  /\ filtered = <<>>
  /\ idx = 0
  /\ acc = InitAcc
  /\ stats = NoResult
  /\ ranks = InitRanks
  /\ curve = NoResult
  /\ search = NoSearch
  /\ prev = NoPrev
  /\ storage = NoStorage
  /\ heap = <<>>
  /\ tabs = NoTabs
  /\ lastOp = NoOp

\* ----- actions: computeFrequencyStats -----

\* variant: the buckets and counters of the previous call are kept
StatsBegin_KeepAcc ==
  /\ pc = "idle"
  /\ filtered' = Filtered(words, level)
  /\ idx' = 0
  /\ acc' = acc
  /\ pc' = "statsLoop"
  /\ UNCHANGED <<words, trackedSet, level, stats, ranks, curve,
               search, prev,
               storage, heap, tabs, lastOp>>

\* variant: the filter replaces the caller's list
StatsBegin_FilterInPlace ==
  /\ pc = "idle"
  /\ filtered' = Filtered(words, level)
  /\ words' = Filtered(words, level)
  /\ idx' = 0
  /\ acc' = InitAcc
  /\ pc' = "statsLoop"
  /\ UNCHANGED <<trackedSet, level, stats, ranks, curve, search, prev,
               storage, heap, tabs, lastOp>>

\* lines 17-38: entry, filter, fresh buckets and counters
StatsBegin ==
  /\ pc = "idle"
  /\ filtered' = Filtered(words, level)
  /\ idx' = 0
  /\ acc' = InitAcc
  /\ pc' = "statsLoop"
  /\ UNCHANGED <<words, trackedSet, level, stats, ranks, curve,
               search, prev,
               storage, heap, tabs, lastOp>>

\* lines 40-59: one iteration
StatsStep ==
  /\ pc = "statsLoop"
  /\ idx < Len(filtered)
  /\ acc' = LoopBody(acc, filtered[idx + 1], trackedSet, level)
  /\ idx' = idx + 1
  /\ UNCHANGED <<words, trackedSet, level, pc, filtered, stats, ranks, curve,
               search, prev,
               storage, heap, tabs, lastOp>>

\* lines 61-72: the loop is over, build the result
StatsReturn ==
  /\ pc = "statsLoop"
  /\ idx = Len(filtered)
  /\ stats' = StatsResult(acc, filtered, level)
  /\ pc' = "statsDone"
  /\ UNCHANGED <<words, trackedSet, level, filtered, idx, acc, ranks, curve,
               search, prev,
               storage, heap, tabs, lastOp>>

\* ----- actions: computeCoverageCurve -----

\* lines 110-116: entry, three empty rank lists
CurveBegin ==
  /\ pc = "idle"
  /\ ranks' = InitRanks
  /\ idx' = 0
  /\ pc' = "curveLoop"
  /\ UNCHANGED <<words, trackedSet, level, filtered, acc, stats, curve,
               search, prev,
               storage, heap, tabs, lastOp>>

\* lines 118-129: one iteration
CurveStep ==
  /\ pc = "curveLoop"
  /\ idx < Len(words)
  /\ ranks' = PartitionBody(ranks, words[idx + 1], trackedSet)
  /\ idx' = idx + 1
  /\ UNCHANGED <<words, trackedSet, level, pc, filtered, acc, stats, curve,
               search, prev,
               storage, heap, tabs, lastOp>>

\* lines 131-170: prefix sums, sampling, summary
CurveReturn ==
  /\ pc = "curveLoop"
  /\ idx = Len(words)
  /\ curve' = CurveResult(ranks)
  /\ pc' = "curveDone"
  /\ UNCHANGED <<words, trackedSet, level, filtered, idx, acc, stats, ranks,
               search, prev,
               storage, heap, tabs, lastOp>>

NextStats == StatsBegin \/ StatsStep \/ StatsReturn

SpecStats == InitStats /\ [][NextStats]_vars

NextCurve == CurveBegin \/ CurveStep \/ CurveReturn

\* Inputs of the coverage curve: short lists over ranks around the sampled
\* points and the bound R, the lists of words sharing rank 1, and the lists
\* of up to three words of both tier groups over three small ranks, on which
\* the three sums of a point are accumulated in different orders.
CurveFrequencies == {NULL, 0, 1, 51, 10000, 10001}
MixedLists == WordLists({6, 7}, {1, 3, 51}, 3)

InitCurve ==
  /\ words \in WordLists(Levels, CurveFrequencies, MaxWords) \cup DupLists
                 \cup MixedLists
  /\ trackedSet \in TrackedSets \cup {1..MaxDup}
  /\ level = UNDEFINED
  /\ pc = "idle"
  /\ filtered = <<>>
  /\ idx = 0
  /\ acc = InitAcc
  /\ stats = NoResult
  /\ ranks = InitRanks
  /\ curve = NoResult
  /\ search = NoSearch
  /\ prev = NoPrev
  /\ storage = NoStorage
  /\ heap = <<>>
  /\ tabs = NoTabs
  /\ lastOp = NoOp

SpecCurve == InitCurve /\ [][NextCurve]_vars

\* ----- repeated calls on the same arguments -----

\* calls that may follow the first one
MaxCalls == 2

AgainLevels == {6, 7}
AgainFrequencies == {NULL, 1, 51}
AgainLevelArgs == {UNDEFINED, 7}

\* A call has returned and the caller calls again with the same arguments
\* (the memoised call sites re-run their callback).  The value just returned
\* is remembered; nothing of the finished call is cleared here: whatever a
\* new call needs fresh, its own entry creates.
CallAgain ==
  /\ pc \in {"statsDone", "curveDone"}
  /\ prev.calls < MaxCalls
  /\ prev' = [stats |-> IF pc = "statsDone" THEN stats ELSE prev.stats,
              curve |-> IF pc = "curveDone" THEN curve ELSE prev.curve,
              calls |-> prev.calls + 1]
  /\ pc' = "idle"
  /\ UNCHANGED <<words, trackedSet, level, filtered, idx, acc, stats, ranks,
               curve, search,
               storage, heap, tabs, lastOp>>

\* three words of both tier groups whose sums round
MixedWords == MkWords(<< <<6, 1>>, <<6, 3>>, <<7, 1>> >>)

InitAgain ==
  /\ words \in WordLists(AgainLevels, AgainFrequencies, MaxWords)
                 \cup {MixedWords}
  /\ trackedSet \in TrackedSets
  /\ level \in AgainLevelArgs
  /\ pc = "idle"
  /\ filtered = <<>>
  /\ idx = 0
  /\ acc = InitAcc
  /\ stats = NoResult
  /\ ranks = InitRanks
  /\ curve = NoResult
  /\ search = NoSearch
  /\ prev = NoPrev
  /\ storage = NoStorage
  /\ heap = <<>>
  /\ tabs = NoTabs
  /\ lastOp = NoOp

NextAgain ==
  \/ StatsBegin \/ StatsStep \/ StatsReturn
  \/ CurveBegin \/ CurveStep \/ CurveReturn
  \/ CallAgain

SpecAgain == InitAgain /\ [][NextAgain]_vars

\* ----- cumulativeAt(buildPrefixSums(ranks), n), step by step -----

\* longest rank list looked up
MaxRanks == 3

\* positive ranks, and queries around them
SearchRanks == {1, 2, 50, 51, 10000}
SearchQueries == {-1, 0, 1, 2, 50, 51, 9999, 10000, 10001}
RankLists == UNION { [1..m -> SearchRanks] : m \in 0..MaxRanks }

\* variant: the comparison of line 100 is strict
SearchBody_Strict(sorted, n, st) ==
  LET mid == (st.lo + st.hi) \div 2
  IN IF sorted[mid + 1] < n
       THEN [lo |-> mid + 1, hi |-> st.hi, result |-> mid]
       ELSE [lo |-> st.lo, hi |-> mid - 1, result |-> st.result]

\* lines 99-105: one iteration of the binary search (0-based lo, hi, result)
SearchBody(sorted, n, st) ==
  LET mid == (st.lo + st.hi) \div 2
  IN IF sorted[mid + 1] <= n
       THEN [lo |-> mid + 1, hi |-> st.hi, result |-> mid]
       ELSE [lo |-> st.lo, hi |-> mid - 1, result |-> st.result]

InitSearch ==
  /\ words = <<>>
  /\ trackedSet = {}
  /\ level = UNDEFINED
  /\ pc = "idle"
  /\ filtered = <<>>
  /\ idx = 0
  /\ acc = InitAcc
  /\ stats = NoResult
  /\ ranks = InitRanks
  /\ curve = NoResult
  /\ search = NoSearch
  /\ prev = NoPrev
  /\ storage = NoStorage
  /\ heap = <<>>
  /\ tabs = NoTabs
  /\ lastOp = NoOp

\* lines 75-87 and 89-97: the prefix sums are built, then the lookup either
\* returns 0 at once (line 93) or enters the loop with lo = 0,
\* hi = length - 1, result = -1
SearchBegin ==
  /\ pc = "idle"
  /\ \E rk \in RankLists, n \in SearchQueries :
        LET ps == buildPrefixSums(rk)
            early == n <= 0 \/ Len(ps.sorted) = 0
        IN /\ search' = [ranks |-> rk, n |-> n,
                         sorted |-> ps.sorted, prefix |-> ps.prefix,
                         st |-> [lo |-> 0, hi |-> Len(ps.sorted) - 1,
                                 result |-> -1],
                         steps |-> 0,
                         value |-> IF early THEN 0 ELSE NULL]
           /\ pc' = IF early THEN "searchDone" ELSE "searching"
  /\ UNCHANGED <<words, trackedSet, level, filtered, idx, acc, stats, ranks,
               curve, prev,
               storage, heap, tabs, lastOp>>

\* lines 98-106: one iteration while lo <= hi
SearchStep ==
  /\ pc = "searching"
  /\ search.st.lo <= search.st.hi
  /\ search' = [search EXCEPT
                  !.st = SearchBody(search.sorted, search.n, @),
                  !.steps = @ + 1]
  /\ UNCHANGED <<words, trackedSet, level, pc, filtered, idx, acc, stats,
               ranks, curve, prev,
               storage, heap, tabs, lastOp>>

\* line 107: the loop is over
SearchReturn ==
  /\ pc = "searching"
  /\ search.st.lo > search.st.hi
  /\ search' = [search EXCEPT
                  !.value = IF search.st.result >= 0
                              THEN search.prefix[search.st.result + 1]
                              ELSE 0]
  /\ pc' = "searchDone"
  /\ UNCHANGED <<words, trackedSet, level, filtered, idx, acc, stats, ranks,
               curve, prev,
               storage, heap, tabs, lastOp>>

NextSearch == SearchBegin \/ SearchStep \/ SearchReturn

\* The lookup is synchronous code: once entered, its loop and its return
\* run without waiting on anything, so an enabled step is eventually taken.
SpecSearch ==
  /\ InitSearch
  /\ [][NextSearch]_vars
  /\ WF_vars(SearchStep)
  /\ WF_vars(SearchReturn)

\* ----- the tracked-word store (hooks/use-tracked-words.ts) -----
\* A JavaScript Set is held as the sequence of its members in insertion
\* order; a Set object is a reference into `heap`, so that two Sets with the
\* same members are still two objects.  The text kept by localStorage is
\* held as the array it encodes ("array"), or as "absent" (getItem returns
\* null) or "corrupt" (JSON.parse throws).

\* operations run over the life of the store
MaxOps == 3

StoreIds == {1, 2}
IdLists == {<<2>>, <<1, 2>>}

\* the words shown by the page: ids 1 and 2, both of the core tier
PageWords == MkWords(<< <<1, 1>>, <<6, 501>> >>)

SetHas(set, id) == \E k \in DOMAIN set : set[k] = id
SetAdd(set, id) == IF SetHas(set, id) THEN set ELSE Append(set, id)
SetDelete(set, id) == SelectSeq(set, LAMBDA x : x # id)
Members(set) == { set[k] : k \in DOMAIN set }

RECURSIVE AddAll(_, _)
\* line 61: for (const id of ids) next.add(id)
AddAll(set, ids) ==
  IF ids = <<>> THEN set ELSE AddAll(SetAdd(set, Head(ids)), Tail(ids))

RECURSIVE DeleteAll(_, _)
\* line 68: for (const id of ids) next.delete(id)
DeleteAll(set, ids) ==
  IF ids = <<>> THEN set ELSE DeleteAll(SetDelete(set, Head(ids)), Tail(ids))

\* new Set(array): duplicates collapse, first occurrence keeps its place
NewSet(arr) == AddAll(<<>>, arr)

\* lines 10-15: the Set built from the stored text
Load(st) == IF st.kind = "array" THEN NewSet(st.arr) ELSE <<>>

\* lines 8-17: the Set object returned, and the heap after the call
getSnapshot(t) ==
  IF tabs[t].cachedSet # NULL
    THEN [ref |-> tabs[t].cachedSet, heap |-> heap]
    ELSE [ref |-> Len(heap) + 1, heap |-> Append(heap, Load(storage))]

\* lines 170-178 of routes/words.tsx: the two memoised results for a snapshot
PageFor(ref, h) ==
  [snapshot |-> ref,
   stats |-> computeFrequencyStats(words, Members(h[ref]), level),
   curve |-> computeCoverageCurve(words, Members(h[ref]))]

\* variant: the memoised results are kept when the snapshot changes
Rendered_StaleMemo(page, ref, h) ==
  [snapshot |-> ref, stats |-> page.stats, curve |-> page.curve]

\* useSyncExternalStore + useMemo: the page after a render that reads `ref`
Rendered(page, ref, h) ==
  IF ref = page.snapshot THEN page ELSE PageFor(ref, h)

UnmountedTab ==
  [mounted |-> FALSE, cachedSet |-> NULL, events |-> 0, dirty |-> FALSE,
   page |-> [snapshot |-> NULL, stats |-> NoResult, curve |-> NoResult]]

InitialStorage ==
  { [kind |-> "absent", arr |-> <<>>], [kind |-> "corrupt", arr |-> <<>>] }
    \cup { [kind |-> "array", arr |-> a] :
             a \in {<<>>, <<1>>, <<2, 1>>, <<1, 1>>} }

InitStore(n, stored, h, tab) ==
  /\ words = PageWords
  /\ trackedSet = {}
  /\ level = UNDEFINED
  /\ pc = "idle"
  /\ filtered = <<>>
  /\ idx = 0
  /\ acc = InitAcc
  /\ stats = NoResult
  /\ ranks = InitRanks
  /\ curve = NoResult
  /\ search = NoSearch
  /\ prev = NoPrev
  /\ storage \in stored
  /\ heap = h
  /\ tabs = [t \in 1..n |-> tab[t]]
  /\ lastOp = NoOp

\* lines 47-48: first render of the page, then subscribe (lines 30-39)
Mount(t) ==
  /\ ~tabs[t].mounted
  /\ LET g == getSnapshot(t)
     IN /\ heap' = g.heap
        /\ tabs' = [tabs EXCEPT ![t] =
                      [mounted |-> TRUE, cachedSet |-> g.ref, events |-> 0,
                       dirty |-> FALSE, page |-> PageFor(g.ref, g.heap)]]
  /\ UNCHANGED <<words, trackedSet, level, pc, filtered, idx, acc, stats,
               ranks, curve, search, prev, storage, lastOp>>

\* variant: the stored text is left as it was
SavedStorage_NoWrite(next) == storage

\* line 26: localStorage.setItem(STORAGE_KEY, JSON.stringify([...next]))
SavedStorage(next) == [kind |-> "array", arr |-> next]

\* lines 24-28: save(next) run by tab t after getSnapshot returned g; the
\* other mounted tabs are sent a storage event when the stored text changed
Save(t, g, next, name, ids) ==
  LET h == Append(g.heap, next)
      st == SavedStorage(next)
  IN /\ heap' = h
     /\ storage' = st
     /\ tabs' = [u \in DOMAIN tabs |->
                   IF u = t
                     THEN [tabs[u] EXCEPT !.cachedSet = Len(h), !.dirty = TRUE]
                     ELSE IF tabs[u].mounted /\ st # storage
                       THEN [tabs[u] EXCEPT !.events = @ + 1]
                       ELSE tabs[u]]
     /\ lastOp' = [tab |-> t, name |-> name, ids |-> ids,
                   count |-> lastOp.count + 1]
     /\ UNCHANGED <<words, trackedSet, level, pc, filtered, idx, acc, stats,
                  ranks, curve, search, prev>>

\* lines 50-56
toggleWord(t, id) ==
  /\ tabs[t].mounted
  /\ lastOp.count < MaxOps
  /\ LET g == getSnapshot(t)
         current == g.heap[g.ref]
         next == IF SetHas(current, id) THEN SetDelete(current, id)
                                        ELSE SetAdd(current, id)
     IN Save(t, g, next, "toggleWord", <<id>>)

\* lines 58-63
trackAll(t, ids) ==
  /\ tabs[t].mounted
  /\ lastOp.count < MaxOps
  /\ LET g == getSnapshot(t)
     IN Save(t, g, AddAll(g.heap[g.ref], ids), "trackAll", ids)

\* lines 65-70
untrackAll(t, ids) ==
  /\ tabs[t].mounted
  /\ lastOp.count < MaxOps
  /\ LET g == getSnapshot(t)
     IN Save(t, g, DeleteAll(g.heap[g.ref], ids), "untrackAll", ids)

\* lines 33-38: a storage event for the key reaches tab t
handleStorage(t) ==
  /\ tabs[t].mounted
  /\ tabs[t].events > 0
  /\ tabs' = [tabs EXCEPT ![t].cachedSet = NULL,
                          ![t].dirty = TRUE,
                          ![t].events = @ - 1]
  /\ UNCHANGED <<words, trackedSet, level, pc, filtered, idx, acc, stats,
               ranks, curve, search, prev, storage, heap, lastOp>>

\* lines 48 and 170-178 of routes/words.tsx: the render that follows a
\* listener call reads the snapshot and re-runs the memoised computations
\* whose dependency changed
Render(t) ==
  /\ tabs[t].mounted
  /\ tabs[t].dirty
  /\ LET g == getSnapshot(t)
     IN /\ heap' = g.heap
        /\ tabs' = [tabs EXCEPT ![t].cachedSet = g.ref,
                                ![t].dirty = FALSE,
                                ![t].page = Rendered(@, g.ref, g.heap)]
  /\ UNCHANGED <<words, trackedSet, level, pc, filtered, idx, acc, stats,
               ranks, curve, search, prev, storage, lastOp>>

OpStep(t) ==
  \/ \E id \in StoreIds : toggleWord(t, id)
  \/ \E ids \in IdLists : trackAll(t, ids)
  \/ \E ids \in IdLists : untrackAll(t, ids)

InitTab == InitStore(1, InitialStorage, <<>>, <<UnmountedTab>>)

NextTab == Mount(1) \/ OpStep(1) \/ Render(1)

\* One tab.
SpecTab == InitTab /\ [][NextTab]_vars

\* a tab whose page has rendered the Set object `ref` of heap h
MountedTab(ref, h) ==
  [mounted |-> TRUE, cachedSet |-> ref, events |-> 0, dirty |-> FALSE,
   page |-> [snapshot |-> ref,
             stats |-> computeFrequencyStats(PageWords, Members(h[ref]),
                                             UNDEFINED),
             curve |-> computeCoverageCurve(PageWords, Members(h[ref]))]]

\* two tabs opened on a browser that holds no entry yet: each has loaded
\* its own empty Set and rendered it
InitTabs ==
  LET h == << <<>>, <<>> >>
  IN InitStore(2, {NoStorage}, h, <<MountedTab(1, h), MountedTab(2, h)>>)

\* operations run by the two tabs together
MaxSharedOps == MaxOps - 1

NextTabs ==
  \/ \E t \in 1..2 : lastOp.count < MaxSharedOps /\ OpStep(t)
  \/ \E t \in 1..2 : Render(t)
  \/ \E t \in 1..2 : handleStorage(t)

\* Two tabs on one localStorage.  When a queued storage event is delivered,
\* relative to the steps of the receiving tab, is not fixed.
SpecTabs == InitTabs /\ [][NextTabs]_vars

\* ----- vocabulary of the properties -----

\* positions of `filtered` (the in-scope words) that satisfy P
InScope(P(_)) == { k \in 1..Len(filtered) : P(filtered[k]) }

\* positions of `words` that satisfy P
InList(P(_)) == { k \in 1..Len(words) : P(words[k]) }

IsTracked(w) == w.id \in trackedSet

RECURSIVE SumHskCount(_, _)
\* hskCount added up over the buckets 0..b
SumHskCount(buckets, b) ==
  IF b < 0 THEN 0 ELSE buckets[b].hskCount + SumHskCount(buckets, b - 1)

RECURSIVE SumTrackedCount(_, _)
\* trackedCount added up over the buckets 0..b
SumTrackedCount(buckets, b) ==
  IF b < 0 THEN 0 ELSE buckets[b].trackedCount + SumTrackedCount(buckets, b - 1)

\* the word consumed by the step of computeFrequencyStats being taken
StepWord == filtered[idx + 1]

IsStatsStep == pc = "statsLoop" /\ idx < Len(filtered) /\ idx' = idx + 1

\* ----- C1 -----
\* C1: computeFrequencyStats: the iteration that consumes an in-scope word
\* of frequency f, 1 <= f <= 10000, adds one to hskCount of exactly one
\* bucket, the bucket of index floor((f - 1) / 500), and leaves the other
\* buckets alone; that bucket has min = 500 * i + 1 <= f <= max = 500 * (i + 1).
C1_OneBucketPerRank ==
  [][ (IsStatsStep /\ StepWord.frequency # NULL
         /\ 1 <= StepWord.frequency /\ StepWord.frequency <= 10000) =>
        LET f == StepWord.frequency
            i == (f - 1) \div 500
        IN /\ i \in 0..19
           /\ acc'.buckets[i].hskCount = acc.buckets[i].hskCount + 1
           /\ \A b \in (0..19) \ {i} : acc'.buckets[b] = acc.buckets[b]
           /\ acc.buckets[i].min = 500 * i + 1
           /\ acc.buckets[i].max = 500 * (i + 1)
           /\ acc.buckets[i].min <= f
           /\ f <= acc.buckets[i].max ]_vars

\* a word of rank 10000 has been counted in the last bucket
C1_Witness ==
  /\ pc = "statsLoop"
  /\ idx >= 1
  /\ filtered[idx].frequency = 10000
  /\ acc.buckets[19].hskCount >= 1

\* ----- C2 -----
BelowRange(w) == w.frequency = NULL \/ w.frequency < 1
AboveRange(w) == w.frequency # NULL /\ w.frequency > 10000
InRange(w) == w.frequency # NULL /\ w.frequency >= 1 /\ w.frequency <= 10000
TrackedInRange(w) == InRange(w) /\ IsTracked(w)
TrackedAboveRange(w) == AboveRange(w) /\ IsTracked(w)
AnyWord(w) == TRUE
From9501(w) == w.frequency # NULL /\ w.frequency >= 9501
TrackedFrom9501(w) == From9501(w) /\ IsTracked(w)

\* C2 as stated: the buckets count only the in-scope words of frequency in
\* [1, 10000] (words outside the range add to no bucket), while totalWords
\* and totalTracked count every in-scope word.
C2_OutOfRangeInNoBucket ==
  pc = "statsDone" =>
    /\ SumHskCount(stats.buckets, 19) = Cardinality(InScope(InRange))
    /\ SumTrackedCount(stats.buckets, 19) = Cardinality(InScope(TrackedInRange))
    /\ stats.totalWords = Cardinality(InScope(AnyWord))
    /\ stats.totalTracked = Cardinality(InScope(IsTracked))

\* C2 amended: an in-scope word of frequency below 1 adds to no bucket, one
\* of frequency above 10000 is counted in the last bucket (index 19); both
\* are counted in totalWords and, when tracked, in totalTracked.
C2_BelowExcludedAboveClamped ==
  pc = "statsDone" =>
    /\ SumHskCount(stats.buckets, 19) =
         Cardinality(InScope(InRange)) + Cardinality(InScope(AboveRange))
    /\ SumTrackedCount(stats.buckets, 19) =
         Cardinality(InScope(TrackedInRange))
           + Cardinality(InScope(TrackedAboveRange))
    /\ stats.buckets[19].hskCount = Cardinality(InScope(From9501))
    /\ stats.buckets[19].trackedCount = Cardinality(InScope(TrackedFrom9501))
    /\ stats.totalWords = Cardinality(InScope(AnyWord))
    /\ stats.totalTracked = Cardinality(InScope(IsTracked))

\* a tracked word above the range and a word below it were both in scope
C2_Witness ==
  /\ pc = "statsDone"
  /\ InScope(TrackedAboveRange) # {}
  /\ InScope(BelowRange) # {}
  /\ stats.buckets[19].trackedCount >= 1
  /\ stats.totalWords = 2

\* ----- C3 -----
\* a percentage of a curve point lies in [0, 100]
PercentInBounds(p) == 0 <= p /\ p <= Percent(H_R)

\* a summary percentage (tenths of a percent) lies in [0, 100]
SummaryInBounds(t) == 0 <= t /\ t <= 1000

\* C3: computeCoverageCurve: zipfPercent, hsk16Percent, hskAllPercent and
\* trackedPercent of every point and the three summary percentages lie in
\* [0, 100], for every list of words with positive integer frequencies
\* (several words may share one rank) and every tracked set.
C3_PercentagesBounded ==
  pc = "curveDone" =>
    /\ \A j \in DOMAIN curve.points :
         /\ PercentInBounds(curve.points[j].zipfPercent)
         /\ PercentInBounds(curve.points[j].hsk16Percent)
         /\ PercentInBounds(curve.points[j].hskAllPercent)
         /\ PercentInBounds(curve.points[j].trackedPercent)
    /\ SummaryInBounds(curve.totalHsk16Percent)
    /\ SummaryInBounds(curve.totalHskAllPercent)
    /\ SummaryInBounds(curve.totalTrackedPercent)

\* ----- C4 -----
UpTo5000(w) == w.frequency # NULL /\ w.frequency >= 1 /\ w.frequency <= 5000
TrackedUpTo5000(w) == UpTo5000(w) /\ IsTracked(w)
Positive(w) == w.frequency # NULL /\ w.frequency >= 1
TrackedPositive(w) == Positive(w) /\ IsTracked(w)

\* C4: computeFrequencyStats: an in-scope word whose frequency is null or
\* not positive is counted in no bucket and in neither topNTotal nor
\* topNTracked; topNTotal is the number of in-scope words of frequency rank
\* at most 5000 (topNTracked the number of those that are tracked).
C4_UnusableFrequencyExcluded ==
  pc = "statsDone" =>
    /\ stats.topNTotal = Cardinality(InScope(UpTo5000))
    /\ stats.topNTracked = Cardinality(InScope(TrackedUpTo5000))
    /\ SumHskCount(stats.buckets, 19) = Cardinality(InScope(Positive))
    /\ SumTrackedCount(stats.buckets, 19) = Cardinality(InScope(TrackedPositive))

\* ----- C5 -----
AllInScopeTracked == \A k \in 1..Len(filtered) : IsTracked(filtered[k])

\* C5 as stated: when the tracked set contains the id of every in-scope
\* word, coveragePercent is 100.
C5_AllTrackedIs100 ==
  (pc = "statsDone" /\ AllInScopeTracked) => stats.coveragePercent = 100

\* C5 amended: when the tracked set contains the id of every in-scope word,
\* coveragePercent is 100 if topNTotal > 0 and 0 if topNTotal = 0.
C5_AllTrackedIs100UnlessNoTopN ==
  (pc = "statsDone" /\ AllInScopeTracked) =>
    /\ stats.topNTotal > 0 => stats.coveragePercent = 100
    /\ stats.topNTotal = 0 => stats.coveragePercent = 0

\* two in-scope words, both tracked, both within the top 5000
C5_Witness ==
  /\ pc = "statsDone"
  /\ AllInScopeTracked
  /\ Len(filtered) = 2
  /\ stats.topNTotal = 2
  /\ stats.coveragePercent = 100

\* ----- C6 -----
ListIds == { words[k].id : k \in 1..Len(words) }
TierOneToSix(w) == w.hskLevel # NULL /\ w.hskLevel >= 1 /\ w.hskLevel <= 6
CoreIds == { words[k].id : k \in InList(TierOneToSix) }

\* C6: computeCoverageCurve: when the tracked set contains the id of every
\* word of the list, trackedPercent = hskAllPercent at every sampled rank;
\* when it is exactly the set of ids of the tier 1..6 words,
\* trackedPercent = hsk16Percent at every sampled rank.
C6_TrackedMatchesScope ==
  pc = "curveDone" =>
    /\ ListIds \subseteq trackedSet =>
         \A j \in DOMAIN curve.points :
            curve.points[j].trackedPercent = curve.points[j].hskAllPercent
    /\ trackedSet = CoreIds =>
         \A j \in DOMAIN curve.points :
            curve.points[j].trackedPercent = curve.points[j].hsk16Percent

Max(a, b) == IF a >= b THEN a ELSE b
AbsDiff(a, b) == IF a >= b THEN a - b ELSE b - a

\* the largest distance that the roundings of the additions can put between
\* two sums of the same k weights that reach x: none where no addition
\* rounds, otherwise at most half a spacing for each addition
WeightSlack(k, x) == IF Quantum(x) = 1 THEN 0 ELSE (k + 1) * Quantum(x)

\* the same distance as a percentage numerator
RoundingSlack(k, x) == Percent(WeightSlack(k, x))

\* C6 (as amended): computeCoverageCurve: when the tracked set contains the
\* id of every word of the list, trackedPercent and hskAllPercent agree at
\* every sampled rank up to the rounding of the additions, and agree exactly
\* when one of the two tier groups has no ranked word; when the tracked set
\* is exactly the set of ids of the tier 1..6 words, trackedPercent =
\* hsk16Percent at every sampled rank.
C6_TrackedMatchesScopeUpToRounding ==
  pc = "curveDone" =>
    /\ ListIds \subseteq trackedSet =>
         \A j \in DOMAIN curve.points :
            LET t == curve.points[j].trackedPercent
                a == curve.points[j].hskAllPercent
            IN /\ AbsDiff(t, a)
                    <= RoundingSlack(Len(ranks.trackedRanks), Max(t, a) \div 100)
               /\ Len(ranks.hsk16Ranks) = 0 \/ Len(ranks.hsk79Ranks) = 0
                    => t = a
    /\ trackedSet = CoreIds =>
         \A j \in DOMAIN curve.points :
            curve.points[j].trackedPercent = curve.points[j].hsk16Percent

\* every word tracked, ranks of both tier groups on the curve, and the sum
\* over the whole list rounded differently from the sum of the two group sums
C6_Witness ==
  /\ pc = "curveDone"
  /\ ListIds \subseteq trackedSet
  /\ Len(ranks.hsk16Ranks) >= 1
  /\ Len(ranks.hsk79Ranks) >= 1
  /\ curve.points[Len(curve.points)].trackedPercent
       > curve.points[Len(curve.points)].hsk16Percent
  /\ curve.points[Len(curve.points)].hsk16Percent > 0
  /\ curve.points[Len(curve.points)].trackedPercent
       # curve.points[Len(curve.points)].hskAllPercent

\* ----- C7 -----
RECURSIVE RanksOf(_, _, _)
\* the frequencies of words[1..n] that satisfy P, in list order
RanksOf(P(_), ws, n) ==
  IF n = 0 THEN <<>>
  ELSE IF P(ws[n]) THEN Append(RanksOf(P, ws, n - 1), ws[n].frequency)
  ELSE RanksOf(P, ws, n - 1)

UsableRank(w) == w.frequency # NULL /\ w.frequency >= 1 /\ w.frequency <= 10000
CoreTierRank(w) ==
  UsableRank(w) /\ w.hskLevel # NULL /\ w.hskLevel >= 1 /\ w.hskLevel <= 6
ExtendedTierRank(w) == UsableRank(w) /\ w.hskLevel # NULL /\ w.hskLevel >= 7

\* C7: computeCoverageCurve: the core-tier list holds exactly the ranks of
\* the words of tier 1..6 and the extended-tier list exactly those of the
\* words of tier 7 or above, so a word whose hskLevel is null is in neither
\* list (and in neither hsk16Percent nor hskAllPercent).
C7_TierPartition ==
  pc \in {"curveLoop", "curveDone"} =>
    /\ ranks.hsk16Ranks = RanksOf(CoreTierRank, words, idx)
    /\ ranks.hsk79Ranks = RanksOf(ExtendedTierRank, words, idx)

\* ----- C8 -----
HasFrequency(w) == w.frequency # NULL
HasFrequencyUpTo5000(w) == w.frequency # NULL /\ w.frequency <= 5000
Tier7(w) == w.hskLevel = 7 /\ w.frequency # NULL
Tier7UpTo5000(w) == Tier7(w) /\ w.frequency <= 5000
Tier7Positive(w) == Tier7(w) /\ w.frequency >= 1

\* C8 as stated: with levelFilter = 7 the denominators totalWords, topNTotal
\* and the buckets' hskCount count only the words whose tier is exactly 7.
C8_Level7CountsTier7Only ==
  (pc = "statsDone" /\ level = 7) =>
    /\ stats.totalWords = Cardinality(InList(Tier7))
    /\ stats.topNTotal = Cardinality(InList(Tier7UpTo5000))
    /\ SumHskCount(stats.buckets, 19) = Cardinality(InList(Tier7Positive))

\* C8 amended: with levelFilter = 7 the denominators totalWords, topNTotal
\* and the buckets' hskCount count every word with a non-null frequency,
\* whatever its tier (1..6, 7 or null); only levelWords counts the words
\* whose tier is exactly 7.
C8_Level7CountsEveryRankedWord ==
  (pc = "statsDone" /\ level = 7) =>
    /\ stats.totalWords = Cardinality(InList(HasFrequency))
    /\ stats.topNTotal = Cardinality(InList(HasFrequencyUpTo5000))
    /\ SumHskCount(stats.buckets, 19) = Cardinality(InList(Positive))
    /\ stats.levelWords = Cardinality(InList(Tier7))

\* levelFilter = 7 on a list with a tier-6 word and a tier-7 word
C8_Witness ==
  /\ pc = "statsDone"
  /\ level = 7
  /\ stats.totalWords = 2
  /\ stats.levelWords = 1
  /\ \E k \in 1..Len(words) : words[k].hskLevel = 6

\* ----- C9 -----
CoreTierWord(w) == w.hskLevel # NULL /\ w.hskLevel <= 6

\* C9: computeFrequencyStats: the in-scope words are all the words with a
\* non-null frequency (any tier, null included) when levelFilter = 7, and
\* otherwise the words whose tier is non-null and <= 6; the result for a
\* levelFilter in 1..6 is the result for levelFilter undefined.
C9_Scope ==
  /\ pc \in {"statsLoop", "statsDone"} =>
       filtered = IF level = 7 THEN SelectSeq(words, HasFrequency)
                               ELSE SelectSeq(words, CoreTierWord)
  /\ (pc = "statsDone" /\ level \in 1..6) =>
       stats = computeFrequencyStats(words, trackedSet, UNDEFINED)

\* levelFilter = 1 on a list with a tier-6 word in scope and a tier-7 word
\* out of scope
C9_Witness ==
  /\ pc = "statsDone"
  /\ level = 1
  /\ Len(words) = 2
  /\ Len(filtered) = 1
  /\ filtered[1].hskLevel = 6
  /\ stats.totalWords = 1
  /\ \E k \in 1..Len(words) : words[k].hskLevel = 7

\* ----- C10 -----
\* C10: computeCoverageCurve: from each sampled point to the next the rank
\* increases and none of zipfPercent, hsk16Percent, hskAllPercent and
\* trackedPercent decreases.
C10_Monotonic ==
  pc = "curveDone" =>
    \A j \in 1..(Len(curve.points) - 1) :
       /\ curve.points[j].rank < curve.points[j + 1].rank
       /\ curve.points[j].zipfPercent <= curve.points[j + 1].zipfPercent
       /\ curve.points[j].hsk16Percent <= curve.points[j + 1].hsk16Percent
       /\ curve.points[j].hskAllPercent <= curve.points[j + 1].hskAllPercent
       /\ curve.points[j].trackedPercent <= curve.points[j + 1].trackedPercent

\* a curve that rises twice: tracked ranks 1 and 51 enter at different points
C10_Witness ==
  /\ pc = "curveDone"
  /\ Len(curve.points) = 59
  /\ 0 < curve.points[2].trackedPercent
  /\ curve.points[2].trackedPercent < curve.points[3].trackedPercent
  /\ curve.points[2].hskAllPercent < curve.points[3].hskAllPercent
  /\ curve.points[58].zipfPercent < curve.points[59].zipfPercent

\* ----- C11 -----
\* C11: computeFrequencyStats: in every bucket trackedCount <= hskCount,
\* throughout the loop and in the returned value, for every word list,
\* tracked set and levelFilter.
C11_TrackedWithinHsk ==
  /\ pc = "statsLoop" =>
       \A b \in 0..19 : acc.buckets[b].trackedCount <= acc.buckets[b].hskCount
  /\ pc = "statsDone" =>
       \A b \in 0..19 :
          /\ 0 <= stats.buckets[b].trackedCount
          /\ stats.buckets[b].trackedCount <= stats.buckets[b].hskCount

\* a bucket that holds a tracked and an untracked word
C11_Witness ==
  /\ pc = "statsDone"
  /\ \E b \in 0..19 :
        /\ stats.buckets[b].trackedCount = 1
        /\ stats.buckets[b].hskCount = 2

\* ----- C12 -----
\* C12: computeFrequencyStats: coveragePercent is the integer nearest to
\* topNTracked / topNTotal * 100 (a half rounds up) when topNTotal > 0 and
\* is 0 when topNTotal = 0; it is an integer in [0, 100].
C12_CoveragePercentRounded ==
  pc = "statsDone" =>
    LET t == stats.topNTracked
        n == stats.topNTotal
        c == stats.coveragePercent
    IN /\ n = 0 => c = 0
       /\ n > 0 => /\ 2 * n * c - n <= 200 * t
                   /\ 200 * t < 2 * n * c + n
       /\ c \in 0..100

\* two of three top-5000 words tracked: 66.67 rounds to 67
C12_Witness ==
  /\ pc = "statsDone"
  /\ stats.topNTotal = 3
  /\ stats.topNTracked = 2
  /\ stats.coveragePercent = 67

\* ----- C13 -----
\* the scope as the specification words it
ScopeWord(w) == IF level = 7 THEN w.frequency # NULL
                             ELSE w.hskLevel # NULL /\ w.hskLevel <= 6
TrackedScopeWord(w) == ScopeWord(w) /\ IsTracked(w)

\* C13: computeFrequencyStats: totalWords is the number of in-scope words
\* whatever their frequency and totalTracked the number of in-scope words
\* whose id is tracked; for the words a (tier 1, rank 1), b (tier 1, rank
\* 501), c (tier 1, rank 1000000) with tracked {a}: bucket 0 has hskCount 1
\* and trackedCount 1, bucket 1 has hskCount 1 and trackedCount 0,
\* totalWords = 3 and totalTracked = 1.
C13_TotalsAndScenario ==
  pc = "statsDone" =>
    /\ stats.totalWords = Cardinality(InList(ScopeWord))
    /\ stats.totalTracked = Cardinality(InList(TrackedScopeWord))
    /\ (words = ScenarioWords /\ trackedSet = {1}) =>
         /\ stats.buckets[0].min = 1 /\ stats.buckets[0].max = 500
         /\ stats.buckets[0].hskCount = 1
         /\ stats.buckets[0].trackedCount = 1
         /\ stats.buckets[1].min = 501 /\ stats.buckets[1].max = 1000
         /\ stats.buckets[1].hskCount = 1
         /\ stats.buckets[1].trackedCount = 0
         /\ stats.totalWords = 3
         /\ stats.totalTracked = 1

\* the scenario has been computed with the level argument omitted
C13_Witness ==
  /\ pc = "statsDone"
  /\ words = ScenarioWords
  /\ trackedSet = {1}
  /\ level = UNDEFINED
  /\ stats.totalWords = 3
  /\ stats.buckets[0].trackedCount = 1

\* ----- C14 -----
\* ids of the in-scope words, and the ids that may be added or removed:
\* the tracked ids, the ids of the list and one id of no word
ScopeIds == { words[k].id : k \in InList(ScopeWord) }
CandidateIds == trackedSet \cup ListIds \cup {Len(words) + 1}

\* C14: computeFrequencyStats: an id that belongs to an out-of-scope word or
\* to no word of the list changes no field of the result: the result is the
\* same with that id added to the tracked set and with it removed.
C14_ForeignIdsIgnored ==
  pc = "statsDone" =>
    \A id \in CandidateIds \ ScopeIds :
       /\ computeFrequencyStats(words, trackedSet \cup {id}, level) = stats
       /\ computeFrequencyStats(words, trackedSet \ {id}, level) = stats

\* a call returned with an in-scope word tracked next to a tracked id of an
\* out-of-scope word of the list
C14_Witness ==
  /\ pc = "statsDone"
  /\ stats.totalTracked >= 1
  /\ \E id \in trackedSet : id \in ListIds \ ScopeIds

\* ----- C15 -----
\* C15: computeFrequencyStats([], empty set) returns exactly 20 buckets, each
\* with hskCount = 0 and trackedCount = 0, totalWords = totalTracked =
\* topNTotal = topNTracked = 0 and coveragePercent = 0.
C15_EmptyInput ==
  (pc = "statsDone" /\ words = <<>> /\ trackedSet = {}) =>
    /\ DOMAIN stats.buckets = 0..19
    /\ Cardinality(DOMAIN stats.buckets) = 20
    /\ \A b \in DOMAIN stats.buckets :
          stats.buckets[b].hskCount = 0 /\ stats.buckets[b].trackedCount = 0
    /\ stats.totalWords = 0
    /\ stats.totalTracked = 0
    /\ stats.topNTotal = 0
    /\ stats.topNTracked = 0
    /\ stats.coveragePercent = 0

\* the call on the empty list and the empty set has returned
C15_Witness ==
  /\ pc = "statsDone"
  /\ Len(words) = 0
  /\ Cardinality(trackedSet) = 0
  /\ stats # NoResult

\* ----- C16 -----
TrackedUsableRank(w) == UsableRank(w) /\ IsTracked(w)
UnusableRank(w) == ~UsableRank(w)

\* the first n words of the list without those that have no usable rank
UsablePrefix(n) == SelectSeq(SubSeq(words, 1, n), UsableRank)

\* C16: computeCoverageCurve: a word whose frequency is null or outside
\* [1, 10000] contributes to no rank list, tracked or not, hence to none of
\* hsk16Percent, hskAllPercent, trackedPercent and to none of the three
\* summary percentages: the lists and the result are those of the list with
\* such words removed.
C16_UnusableRankSkipped ==
  /\ pc \in {"curveLoop", "curveDone"} =>
       /\ ranks = PartitionFrom(InitRanks, UsablePrefix(idx), 1, trackedSet)
       /\ Len(ranks.hsk16Ranks) + Len(ranks.hsk79Ranks)
            = Cardinality({ k \in 1..idx : UsableRank(words[k]) })
       /\ ranks.trackedRanks = RanksOf(TrackedUsableRank, words, idx)
  /\ pc = "curveDone" =>
       curve = computeCoverageCurve(UsablePrefix(Len(words)), trackedSet)

\* a curve returned for a list that holds a tracked word without a usable
\* rank next to a word that has one
C16_Witness ==
  /\ pc = "curveDone"
  /\ \E k \in InList(UnusableRank) : IsTracked(words[k])
  /\ \E k \in InList(UnusableRank) : words[k].frequency = 10001
  /\ curve.totalHskAllPercent > 0

\* ----- C17 -----
\* the last entry of the prefix sums of a rank list, 0 for an empty list
LastPrefixEntry(rk) ==
  LET p == buildPrefixSums(rk).prefix
  IN IF Len(p) = 0 THEN 0 ELSE p[Len(p)]

\* a percentage held as a numerator over H_R, rounded to tenths of a percent
RoundedToTenths(x) == RoundDiv(x * 10, H_R)

\* C17: computeCoverageCurve: each summary percentage is computed from the
\* last prefix-sum entry of its list(s) and equals the corresponding
\* percentage of the last sampled point (rank 10000) rounded to the nearest
\* 0.1.
C17_SummaryFromLastEntry ==
  pc = "curveDone" =>
    LET last == curve.points[Len(curve.points)]
        t16 == LastPrefixEntry(ranks.hsk16Ranks)
        t79 == LastPrefixEntry(ranks.hsk79Ranks)
        tt == LastPrefixEntry(ranks.trackedRanks)
    IN /\ last.rank = 10000
       /\ curve.totalHsk16Percent = RoundDiv(t16 * 1000, H_R)
       /\ curve.totalHskAllPercent = RoundDiv(FAdd(t16, t79) * 1000, H_R)
       /\ curve.totalTrackedPercent = RoundDiv(tt * 1000, H_R)
       /\ curve.totalHsk16Percent = RoundedToTenths(last.hsk16Percent)
       /\ curve.totalHskAllPercent = RoundedToTenths(last.hskAllPercent)
       /\ curve.totalTrackedPercent = RoundedToTenths(last.trackedPercent)

\* a curve over a core-tier list of two or more ranks, part of them tracked
C17_Witness ==
  /\ pc = "curveDone"
  /\ Len(ranks.hsk16Ranks) >= 2
  /\ 0 < curve.totalTrackedPercent
  /\ curve.totalTrackedPercent < curve.totalHsk16Percent
  /\ curve.totalHsk16Percent = curve.totalHskAllPercent

\* ----- C18 -----
\* C18: a second call of computeFrequencyStats or computeCoverageCurve on
\* the same arguments returns a value equal to the first: whatever calls
\* came before, the value returned is the function of the arguments alone.
C18_SameInputsSameOutputs ==
  /\ (pc = "statsDone" /\ prev.stats # NoResult) => stats = prev.stats
  /\ (pc = "curveDone" /\ prev.curve # NoResult) => curve = prev.curve
  /\ pc = "statsDone" => stats = computeFrequencyStats(words, trackedSet, level)
  /\ pc = "curveDone" => curve = computeCoverageCurve(words, trackedSet)

\* computeFrequencyStats has returned a second time, after a call of
\* computeCoverageCurve, on a list with a tracked in-scope word
C18_Witness ==
  /\ pc = "statsDone"
  /\ prev.stats # NoResult
  /\ prev.curve # NoResult
  /\ prev.calls = 2
  /\ stats.totalTracked >= 1
  /\ stats.buckets[0].hskCount >= 1

\* ----- C19 -----
\* C19: no step of computeFrequencyStats or computeCoverageCurve changes the
\* words list (same elements, same order) or the members of the tracked set,
\* and building the result, which sorts the rank lists, leaves the rank
\* lists themselves in the order they were filled.
C19_ArgumentsUnchanged ==
  [][/\ words' = words
     /\ trackedSet' = trackedSet
     /\ (pc = "curveLoop" /\ pc' = "curveDone") => ranks' = ranks]_vars

\* both functions have returned on a list of two core-tier words given out
\* of rank order, the second of them tracked
C19_Witness ==
  /\ pc = "curveDone"
  /\ stats # NoResult
  /\ stats.totalWords = 2
  /\ ranks.hsk16Ranks = <<51, 1>>
  /\ trackedSet = {2}
  /\ curve.totalTrackedPercent > 0

\* ----- C20 -----
RECURSIVE SumRecipUpTo(_, _, _)
\* the sum of 1/r over the first k entries r of rk with r <= n, added
\* without rounding
SumRecipUpTo(rk, n, k) ==
  IF k = 0 THEN 0
  ELSE SumRecipUpTo(rk, n, k - 1) + (IF rk[k] <= n THEN Recip(rk[k]) ELSE 0)

\* C20: for every list of positive ranks (duplicates allowed, any order) and
\* every query n, cumulativeAt on buildPrefixSums(ranks) returns the sum of
\* 1/r over all entries r <= n, counting duplicates (the floating-point sum:
\* it is the sum added without rounding wherever no addition rounds, and
\* within the rounding of its additions of that sum otherwise); it returns
\* 0 when no entry is <= n, when n <= 0 and when the list is empty; and the
\* binary search loop, once entered, reaches its return.
C20_CumulativeAtSumsAndTerminates ==
  /\ [](pc = "searchDone" =>
          /\ LET exact == SumRecipUpTo(search.ranks, search.n,
                                       Len(search.ranks))
             IN AbsDiff(search.value, exact)
                  <= WeightSlack(Len(search.ranks), Max(search.value, exact))
          /\ (\A k \in 1..Len(search.ranks) : search.ranks[k] > search.n)
               => search.value = 0
          /\ search.n <= 0 => search.value = 0
          /\ Len(search.ranks) = 0 => search.value = 0)
  /\ (pc = "searching" ~> pc = "searchDone")

\* a lookup over an unsorted list with a duplicate went through the loop and
\* returned the weight of the two entries below the query
C20_Witness ==
  /\ pc = "searchDone"
  /\ search.ranks = <<51, 1, 1>>
  /\ search.n = 50
  /\ search.steps >= 2
  /\ search.value = FAdd(Recip(1), Recip(1))

\* ----- C21 -----
ScopePositive(w) == ScopeWord(w) /\ w.frequency # NULL /\ w.frequency >= 1
TrackedScopePositive(w) == ScopePositive(w) /\ IsTracked(w)

\* floor((f - 1) / 500) clamped to [0, 19], for f >= 1
ClampedIndex(f) ==
  LET i == (f - 1) \div 500
  IN IF i < 0 THEN 0 ELSE IF i > 19 THEN 19 ELSE i

\* C21: computeFrequencyStats: the iteration that consumes an in-scope word
\* with a non-null positive frequency f adds one to hskCount of exactly one
\* bucket, the one of index floor((f - 1) / 500) clamped to [0, 19], and one
\* to its trackedCount exactly when the word is tracked; hence in the result
\* the sum of hskCount over the 20 buckets is the number of in-scope words
\* with a non-null positive frequency and the sum of trackedCount the number
\* of those that are tracked.
C21_PositiveRankInOneBucket ==
  /\ [][ (IsStatsStep /\ StepWord.frequency # NULL
            /\ StepWord.frequency >= 1) =>
           LET i == ClampedIndex(StepWord.frequency)
               t == IF StepWord.id \in trackedSet THEN 1 ELSE 0
           IN /\ acc'.buckets[i].hskCount = acc.buckets[i].hskCount + 1
              /\ acc'.buckets[i].trackedCount
                   = acc.buckets[i].trackedCount + t
              /\ \A b \in (0..19) \ {i} : acc'.buckets[b] = acc.buckets[b] ]_vars
  /\ [](pc = "statsDone" =>
          /\ SumHskCount(stats.buckets, 19)
               = Cardinality(InList(ScopePositive))
          /\ SumTrackedCount(stats.buckets, 19)
               = Cardinality(InList(TrackedScopePositive)))

\* two in-scope words counted, a tracked one of rank 10000 and one of rank
\* 1000000, both in the last bucket
C21_Witness ==
  /\ pc = "statsDone"
  /\ Len(words) = 2
  /\ words[1].frequency = 10000
  /\ words[2].frequency = 1000000
  /\ trackedSet = {1}
  /\ stats.buckets[19].hskCount = 2
  /\ stats.buckets[19].trackedCount = 1

\* ----- C22 -----
ScopeTier7(w) == ScopeWord(w) /\ w.hskLevel = 7
TrackedScopeTier7(w) == ScopeTier7(w) /\ IsTracked(w)

\* C22: computeFrequencyStats: levelWords and levelTracked are fields of the
\* result exactly when levelFilter = 7; then levelWords is the number of
\* in-scope words whose tier is exactly 7, levelTracked the number of those
\* that are tracked, and levelTracked <= levelWords <= totalWords.
C22_LevelCounts ==
  pc = "statsDone" =>
    /\ ("levelWords" \in DOMAIN stats) <=> (level = 7)
    /\ ("levelTracked" \in DOMAIN stats) <=> (level = 7)
    /\ level = 7 =>
         /\ stats.levelWords = Cardinality(InList(ScopeTier7))
         /\ stats.levelTracked = Cardinality(InList(TrackedScopeTier7))
         /\ stats.levelTracked <= stats.levelWords
         /\ stats.levelWords <= stats.totalWords

\* level 7 over a tracked tier-7 word and a tier-6 word
C22_Witness ==
  /\ pc = "statsDone"
  /\ level = 7
  /\ stats.totalWords = 2
  /\ stats.levelWords = 1
  /\ stats.levelTracked = 1

\* ----- C23 -----
\* the documented schedule: steps of 50 up to 1000, 100 up to 3000, 250 up
\* to 5000, 500 up to 10000
ScheduleRanks ==
  { r \in 0..10000 :
      \/ r <= 1000 /\ r % 50 = 0
      \/ 1000 < r /\ r <= 3000 /\ r % 100 = 0
      \/ 3000 < r /\ r <= 5000 /\ r % 250 = 0
      \/ 5000 < r /\ r % 500 = 0 }

\* the curve of the empty word list and the empty tracked set
EmptyCurve == computeCoverageCurve(<<>>, {})

\* C23: computeCoverageCurve: the sampled ranks are strictly increasing,
\* start at 0, end at 10000 and follow the documented schedule; at rank 0
\* the four percentages are 0; at rank 10000 zipfPercent is 100; zipfPercent
\* is the same for every input; with an empty word list hsk16Percent,
\* hskAllPercent and trackedPercent are 0 at every point and the three
\* summaries are 0.
C23_SampleSchedule ==
  pc = "curveDone" =>
    LET pts == curve.points
        n == Len(pts)
    IN /\ pts[1].rank = 0
       /\ pts[n].rank = 10000
       /\ \A j \in 1..(n - 1) : pts[j].rank < pts[j + 1].rank
       /\ { pts[j].rank : j \in 1..n } = ScheduleRanks
       /\ pts[1].zipfPercent = 0
       /\ pts[1].hsk16Percent = 0
       /\ pts[1].hskAllPercent = 0
       /\ pts[1].trackedPercent = 0
       /\ pts[n].zipfPercent = 100 * H_R
       /\ \A j \in 1..n : pts[j].zipfPercent = EmptyCurve.points[j].zipfPercent
       /\ words = <<>> =>
            /\ \A j \in 1..n :
                  /\ pts[j].hsk16Percent = 0
                  /\ pts[j].hskAllPercent = 0
                  /\ pts[j].trackedPercent = 0
            /\ curve.totalHsk16Percent = 0
            /\ curve.totalHskAllPercent = 0
            /\ curve.totalTrackedPercent = 0

\* the curve of an empty word list with a non-empty tracked set
C23_Witness ==
  /\ pc = "curveDone"
  /\ Len(words) = 0
  /\ trackedSet # {}
  /\ Len(curve.points) = 59
  /\ curve.points[2].rank = 50
  /\ 0 < curve.points[2].zipfPercent
  /\ curve.points[2].zipfPercent < curve.points[59].zipfPercent

\* ----- C24 -----
\* the Set that getSnapshot of tab t returns in the current state
CurrentSet(t) ==
  IF tabs[t].cachedSet # NULL THEN heap[tabs[t].cachedSet] ELSE Load(storage)

\* no listener call of tab t is waiting for its render
Settled(t) == tabs[t].mounted /\ ~tabs[t].dirty

\* the page of tab t holds the results of the current tracked set
PageCurrent(t) ==
  /\ tabs[t].page.snapshot = tabs[t].cachedSet
  /\ tabs[t].page.stats
       = computeFrequencyStats(words, Members(CurrentSet(t)), level)
  /\ tabs[t].page.curve = computeCoverageCurve(words, Members(CurrentSet(t)))

C25_TrackedAndCoreBelowAll ==
  pc = "curveDone" =>
    \A j \in DOMAIN curve.points :
       /\ curve.points[j].hsk16Percent <= curve.points[j].hskAllPercent
       /\ curve.points[j].trackedPercent <= curve.points[j].hskAllPercent

\* C25 (as amended): computeCoverageCurve: at every sampled rank, for every
\* word list and tracked set, hsk16Percent <= hskAllPercent; trackedPercent
\* exceeds hskAllPercent by no more than the rounding of the additions, and
\* not at all when one of the two tier groups has no ranked word.
C25_TrackedBelowAllUpToRounding ==
  pc = "curveDone" =>
    \A j \in DOMAIN curve.points :
       LET t == curve.points[j].trackedPercent
           a == curve.points[j].hskAllPercent
           k == Len(ranks.hsk16Ranks) + Len(ranks.hsk79Ranks)
       IN /\ curve.points[j].hsk16Percent <= a
          /\ t <= a + RoundingSlack(k, Max(t, a) \div 100)
          /\ Len(ranks.hsk16Ranks) = 0 \/ Len(ranks.hsk79Ranks) = 0 => t <= a

\* the list of the ranks 1 and 3 in the core tiers and the rank 1 in the
\* extended tiers, every word tracked: the tracked sum over the three ranks
\* comes out one spacing above the sum of the two group sums
C25_Witness ==
  /\ pc = "curveDone"
  /\ ranks.hsk16Ranks = <<1, 3>>
  /\ ranks.hsk79Ranks = <<1>>
  /\ ranks.trackedRanks = <<1, 3, 1>>
  /\ \E j \in DOMAIN curve.points :
        /\ curve.points[j].trackedPercent > curve.points[j].hskAllPercent
        /\ curve.points[j].hsk16Percent < curve.points[j].hskAllPercent

\* ----- C26 -----
\* C26: computeFrequencyStats: for every input, topNTracked <= topNTotal <=
\* totalWords, totalTracked <= totalWords, topNTracked <= totalTracked, the
\* sum of bucket hskCount <= totalWords and the sum of bucket trackedCount
\* <= totalTracked.
C26_CountsOrdered ==
  pc = "statsDone" =>
    /\ stats.topNTracked <= stats.topNTotal
    /\ stats.topNTotal <= stats.totalWords
    /\ stats.totalTracked <= stats.totalWords
    /\ stats.topNTracked <= stats.totalTracked
    /\ SumHskCount(stats.buckets, 19) <= stats.totalWords
    /\ SumTrackedCount(stats.buckets, 19) <= stats.totalTracked

\* two words in scope: an untracked one counted in the top N and in no
\* bucket, a tracked one outside the top N
C26_Witness ==
  /\ pc = "statsDone"
  /\ stats.totalWords = 2
  /\ stats.topNTotal = 1
  /\ stats.topNTracked = 0
  /\ stats.totalTracked = 1
  /\ SumHskCount(stats.buckets, 19) = 1
  /\ SumTrackedCount(stats.buckets, 19) = 1

\* ----- C27 -----
\* the tracked counts of s1 are at most those of s2, the other counts equal
StatsGrowWithTracking(s1, s2, lvl) ==
  /\ \A b \in DOMAIN s1.buckets :
        /\ s1.buckets[b].trackedCount <= s2.buckets[b].trackedCount
        /\ s1.buckets[b].hskCount = s2.buckets[b].hskCount
  /\ s1.totalTracked <= s2.totalTracked
  /\ s1.topNTracked <= s2.topNTracked
  /\ s1.totalWords = s2.totalWords
  /\ s1.topNTotal = s2.topNTotal
  /\ lvl = 7 => /\ s1.levelTracked <= s2.levelTracked
                /\ s1.levelWords = s2.levelWords

\* the tracked percentages of c1 are at most those of c2, the others equal
CurveGrowsWithTracking(c1, c2) ==
  /\ \A j \in DOMAIN c1.points :
        /\ c1.points[j].trackedPercent <= c2.points[j].trackedPercent
        /\ c1.points[j].rank = c2.points[j].rank
        /\ c1.points[j].zipfPercent = c2.points[j].zipfPercent
        /\ c1.points[j].hsk16Percent = c2.points[j].hsk16Percent
        /\ c1.points[j].hskAllPercent = c2.points[j].hskAllPercent
  /\ c1.totalTrackedPercent <= c2.totalTrackedPercent
  /\ c1.totalHsk16Percent = c2.totalHsk16Percent
  /\ c1.totalHskAllPercent = c2.totalHskAllPercent

\* C27: for tracked sets T and T' with T a subset of T' and the same word
\* list, every tracked count of computeFrequencyStats and every
\* trackedPercent and totalTrackedPercent of computeCoverageCurve for T is
\* <= the one for T', and the fields that do not concern tracking are
\* identical for T and T'.
C27_MonotoneInTrackedSet ==
  \A T2 \in TrackedSets :
     trackedSet \subseteq T2 =>
       /\ pc = "statsDone" =>
            StatsGrowWithTracking(stats,
                                  computeFrequencyStats(words, T2, level),
                                  level)
       /\ pc = "curveDone" =>
            CurveGrowsWithTracking(curve, computeCoverageCurve(words, T2))

\* both functions have returned for two ranked words of which only the
\* second is tracked, so that a larger tracked set exists and gives more
C27_Witness ==
  /\ pc = "curveDone"
  /\ stats # NoResult
  /\ Len(words) = 2
  /\ trackedSet = {2}
  /\ stats.totalTracked = 1
  /\ stats.totalWords = 2
  /\ curve.totalTrackedPercent > 0
  /\ curve.totalTrackedPercent
       < computeCoverageCurve(words, {1, 2}).totalTrackedPercent

\* ----- C28 -----
\* the rearrangements of the positions 1..n
Reorderings(n) ==
  { f \in [1..n -> 1..n] : \A a, b \in 1..n : f[a] = f[b] => a = b }

\* the same words in the order f
Permuted(ws, f) == [k \in 1..Len(ws) |-> ws[f[k]]]

\* C28: the results of computeFrequencyStats and computeCoverageCurve do
\* not depend on the order of the words list: any permutation of the same
\* words with the same tracked set gives the same counts and the same curve.
C28_OrderIndependent ==
  \A f \in Reorderings(Len(words)) :
     /\ pc = "statsDone" =>
          stats = computeFrequencyStats(Permuted(words, f), trackedSet, level)
     /\ pc = "curveDone" =>
          curve = computeCoverageCurve(Permuted(words, f), trackedSet)

\* both functions have returned for the three words of ranks 1, 3, 1, two
\* of them tracked; the list has six orders and the core ranks came in the
\* order 1, 3
C28_Witness ==
  /\ pc = "curveDone"
  /\ stats # NoResult
  /\ words = MixedWords
  /\ trackedSet = {1, 2}
  /\ ranks.hsk16Ranks = <<1, 3>>
  /\ stats.totalTracked = 2
  /\ curve.totalTrackedPercent > 0

C30_NoLostUpdate ==
  [][ \A x \in StoreIds :
        ( /\ lastOp' # lastOp
          /\ lastOp.tab # 0
          /\ lastOp'.tab # lastOp.tab
          /\ x \in Members(storage.arr)
          /\ ~SetHas(lastOp'.ids, x) )
        => x \in Members(storage'.arr) ]_vars

=============================================================================
